---------------------------- MODULE Spec2Model ----------------------------
(***************************************************************************)
(* Model of the voxel runner: services/voxelEngine.ts (VoxelEngine), the   *)
(* GameCanvas component that owns the engine and the App host that reacts  *)
(* to the engine's callbacks.                                              *)
(*                                                                         *)
(* Numbers.  The program computes in IEEE doubles.  The model uses         *)
(* fixed-point integers with three decimals: a position, a velocity, a     *)
(* particle life, the score and the time are stored multiplied by Scale,   *)
(* and a frame time is stored in milliseconds.  A product with a frame     *)
(* time is rounded toward zero to that resolution (MulDt).  The frame      *)
(* times of Elapsed make every product of the vertical motion exact.       *)
(*                                                                         *)
(* Rendering (scene, camera, materials, audio) is not modelled; of a       *)
(* particle the model keeps its life and the place it was spawned at, not  *)
(* its random cosmetic flight.  input.f is written by the key handler and  *)
(* read by nothing, and is left out.                                       *)
(***************************************************************************)
EXTENDS Integers, Sequences, FiniteSets, TLC

\* ------------------------------------------------------------------------
\* Configuration (voxelEngine.ts lines 6-12), in the program's own units.
CHUNK_SIZE == 16
VIEW_DISTANCE == 4
GRAVITY == 40
JUMP_FORCE == 16
MOVE_SPEED == 12
SPRINT_SPEED == 20
DRAG == 8

\* Fixed-point resolution: 1 unit of the program is Scale units of the model.
Scale == 10^3

\* Geometry and thresholds that the code writes as literals, times Scale.
HALF_W == 350
HALF_H == 400
HALF_BLOCK == 500
FLOOR_Y == -4
MIN_HEIGHT == -2
DEATH_Y == -10
MAX_DT == 100
MAX_REACH == 20
BLOCK_SCORE == 10
DESTROY_PARTICLES == 8
JUMP_PARTICLES == 5
START_Y == 5
PARTICLE_LIFE == 1000

\* ------------------------------------------------------------------------
\* Bounds of the exploration.
MaxFrames == 6
MaxFallFrames == 11
MaxUnlocks == 2
MaxMouse == 1
MaxRunFrames == 4
MaxLandFrames == 13
MaxDigFrames == 4
MaxParticles == 13
MaxClockFrames == 4

\* ------------------------------------------------------------------------
\* Arithmetic helpers.
Min(a, b) == IF a < b THEN a ELSE b
Max(a, b) == IF a > b THEN a ELSE b

\* Math.floor of a fixed-point number (\div rounds toward minus infinity).
Floor(v) == v \div Scale

\* v * dt for a frame time dt in milliseconds, rounded toward zero.
MulDt(v, dt) == IF v >= 0 THEN (v * dt) \div 1000 ELSE -(((-v) * dt) \div 1000)

\* ------------------------------------------------------------------------
\* The voxel grid: Map<string, Mesh>, keyed by `${x},${y},${z}`.
Key(x, y, z) == ToString(x) \o "," \o ToString(y) \o "," \o ToString(z)

Mesh(x, y, z, type) == [x |-> x, y |-> y, z |-> z, type |-> type, key |-> Key(x, y, z)]

Has(blocks, x, y, z) == Key(x, y, z) \in DOMAIN blocks

\* Mutant of createBlock: no test for an existing block at the key.
createBlockOverwrite(blocks, x, y, z, type) ==
  [k \in DOMAIN blocks \cup {Key(x, y, z)} |->
     IF k = Key(x, y, z) THEN Mesh(x, y, z, type) ELSE blocks[k]]

createBlock(blocks, x, y, z, type) ==
  IF Key(x, y, z) \in DOMAIN blocks
    THEN blocks
    ELSE blocks @@ (Key(x, y, z) :> Mesh(x, y, z, type))

\* Map.delete(key): removes the entry if there is one, and never throws.
deleteBlock(blocks, key) == [k \in DOMAIN blocks \ {key} |-> blocks[k]]

EmptyGrid == [k \in {} |-> Mesh(0, 0, 0, "dirt")]

\* ------------------------------------------------------------------------
\* Terrain.  floor(sin(worldX*0.1)*2) + floor(cos(worldX*0.5)*1), tabulated
\* for worldX in TableMin .. TableMin + 175 (TLA+ has no sine).
TableMin == -64
HeightTable ==
  << -1, -1, 0, 0, 0, -1, -1, 0, 0, 0, 0, 1, 1, 1, 1, 1,
      1, 0, 0, 0, 0, 0, 0, 0, 1, 1, 1, 1, 0, 0, -1, -1,
      -1, -2, -2, -2, -1, -1, -2, -2, -2, -2, -2, -3, -3, -3, -3, -3,
      -3, -2, -2, -2, -2, -2, -2, -3, -3, -3, -3, -2, -2, -1, -1, -1,
      1, 0, 0, 0, -1, -1, 0, 0, 0, 0, 1, 1, 1, 1, 1, 1,
      0, 0, 0, 0, 0, 0, 1, 1, 1, 1, 1, 0, 0, -1, -1, -1,
      -2, -2, -2, -1, -1, -2, -2, -2, -2, -3, -3, -3, -3, -3, -3, -3,
      -2, -2, -2, -2, -2, -2, -3, -3, -3, -3, -2, -2, -1, -1, -1, 0,
      0, 0, -1, -1, -1, 0, 0, 0, 0, 1, 1, 1, 1, 1, 1, 0,
      0, 0, 0, 0, 0, 1, 1, 1, 1, 1, 0, 0, -1, -1, -1, -2,
      -2, -2, -1, -1, -2, -2, -2, -2, -3, -3, -3, -3, -3, -3, -2, -2 >>

Height(worldX) ==
  LET raw == HeightTable[worldX - TableMin + 1]
  IN  IF raw < MIN_HEIGHT THEN MIN_HEIGHT ELSE raw

\* The Math.random() draws of generateChunk, as an oracle chosen when the
\* engine is constructed: the columns that get a fragile obstacle (with its
\* offset above the surface and whether a second block is stacked on it) and
\* the columns that get a stone platform.
Seeds ==
  { [frag |-> {}, off |-> 0, stack |-> FALSE, stone |-> {}],
    [frag |-> {5, -27}, off |-> 1, stack |-> TRUE, stone |-> {8, -17}] }

\* for (let y = -4; y <= height; y++) createBlock(worldX, y, 0, grass|dirt)
\* (In this loop and the next, the test of DOMAIN blocks is never true: no
\* key is "-".  It makes TLC evaluate the grid built so far at every
\* iteration instead of nesting the whole loop's pending calls.)
RECURSIVE FillColumn(_, _, _, _)
FillColumn(blocks, worldX, y, height) ==
  IF y > height \/ DOMAIN blocks = {"-"}
    THEN blocks
    ELSE FillColumn(createBlock(blocks, worldX, y, 0,
                                IF y = height THEN "grass" ELSE "dirt"),
                    worldX, y + 1, height)

\* One iteration of generateChunk's loop over the local column x.
GenColumn(blocks, cx, x, seed) ==
  LET worldX == cx * CHUNK_SIZE + x
      height == Height(worldX)
      b1 == FillColumn(blocks, worldX, FLOOR_Y, height)
      h  == height + 1 + seed.off
      b2 == IF worldX \in seed.frag /\ x > 2
              THEN IF seed.stack
                     THEN createBlock(createBlock(b1, worldX, h, 0, "fragile"),
                                      worldX, h + 1, 0, "fragile")
                     ELSE createBlock(b1, worldX, h, 0, "fragile")
              ELSE b1
      py == height + 4
  IN  IF worldX \in seed.stone
        THEN createBlock(createBlock(b2, worldX, py, 0, "stone"),
                         worldX + 1, py, 0, "stone")
        ELSE b2

RECURSIVE GenColumns(_, _, _, _)
GenColumns(blocks, cx, x, seed) ==
  IF x >= CHUNK_SIZE \/ DOMAIN blocks = {"-"}
    THEN blocks
    ELSE GenColumns(GenColumn(blocks, cx, x, seed), cx, x + 1, seed)

generateChunk(blocks, cx, seed) == GenColumns(blocks, cx, 0, seed)


\* updateChunks: the loop for (i = -1; i <= VIEW_DISTANCE; i++) from index i
\* on, for the player chunk pcx.  g is [blocks, chunks, genLog]; genLog is a
\* history of the calls of generateChunk, in order.
\* Mutant of UpdateFrom: the ledger is written but never consulted.
RECURSIVE UpdateFromNoLedger(_, _, _, _)
UpdateFromNoLedger(g, pcx, i, seed) ==
  IF i > VIEW_DISTANCE
    THEN g
    ELSE UpdateFromNoLedger([blocks |-> generateChunk(g.blocks, pcx + i, seed),
                             chunks |-> g.chunks \cup {pcx + i},
                             genLog |-> Append(g.genLog, pcx + i)],
                            pcx, i + 1, seed)

RECURSIVE UpdateFrom(_, _, _, _)
UpdateFrom(g, pcx, i, seed) ==
  IF i > VIEW_DISTANCE
    THEN g
    ELSE LET cx == pcx + i
         IN  IF cx \in g.chunks
               THEN UpdateFrom(g, pcx, i + 1, seed)
               ELSE UpdateFrom([blocks |-> generateChunk(g.blocks, cx, seed),
                                chunks |-> g.chunks \cup {cx},
                                genLog |-> Append(g.genLog, cx)],
                               pcx, i + 1, seed)

\* Mutant of PlayerChunk: the quotient is truncated toward zero.
PlayerChunkTruncated(px) ==
  IF px >= 0 THEN px \div (CHUNK_SIZE * Scale)
             ELSE -((-px) \div (CHUNK_SIZE * Scale))

\* Math.floor(position.x / CHUNK_SIZE)
PlayerChunk(px) == px \div (CHUNK_SIZE * Scale)

updateChunks(e) ==
  LET g == UpdateFrom([blocks |-> e.blocks, chunks |-> e.chunksGenerated,
                       genLog |-> e.genLog],
                      PlayerChunk(e.px), -1, e.seed)
  IN  [e EXCEPT !.blocks = g.blocks, !.chunksGenerated = g.chunks,
                !.genLog = g.genLog]

\* ------------------------------------------------------------------------
\* The engine: the fields of VoxelEngine that the simulation reads or writes.
\* genLog and destroyed are histories: the calls of generateChunk in order,
\* and the keys destroyBlock has deleted.
Fresh(seed) ==
  [ active |-> FALSE,
    px |-> 0, py |-> START_Y * Scale, vx |-> 0, vy |-> 0,
    onGround |-> FALSE, canDoubleJump |-> FALSE,
    r |-> 0, sprint |-> FALSE,
    blocks |-> EmptyGrid, chunksGenerated |-> {}, particles |-> << >>,
    score |-> 0, time |-> 0,
    mouseX |-> 0, mouseY |-> 0,
    seed |-> seed, genLog |-> << >>, destroyed |-> {} ]

\* constructor -> init(): the fields' initial values, then updateChunks().
Construct(seed) == updateChunks(Fresh(seed))

\* ------------------------------------------------------------------------
\* Particles.
RECURSIVE spawnParticles(_, _, _, _)
spawnParticles(particles, x, y, count) ==
  IF count = 0
    THEN particles
    ELSE spawnParticles(Append(particles, [life |-> PARTICLE_LIFE, x |-> x, y |-> y]),
                        x, y, count - 1)

\* Mutant of Aged: a tick lowers the life by dt, not by twice dt.
AgedByDt(p, dt) == [p EXCEPT !.life = p.life - dt]

\* One particle's life after a tick of dt milliseconds: life -= delta * 2.
Aged(p, dt) == [p EXCEPT !.life = p.life - 2 * dt]

\* The particle loop of animate: every particle ages, and the ones whose
\* life is then <= 0 are spliced out (the survivors keep their order).
AgedAll(particles, dt) == [i \in 1..Len(particles) |-> Aged(particles[i], dt)]

IsLive(p) == p.life > 0

tickParticles(particles, dt) == SelectSeq(AgedAll(particles, dt), IsLive)

\* ------------------------------------------------------------------------
\* Collision.
\* Mutant of CollideCell: landing puts the player's centre on the block's
\* top face.
CollideCellBlockTop(e, axis, x, y) ==
  IF ~Has(e.blocks, x, y, 0)
    THEN e
    ELSE IF axis = "x"
      THEN [e EXCEPT !.px = IF e.vx > 0 THEN x * Scale - HALF_W - HALF_BLOCK
                                         ELSE x * Scale + HALF_BLOCK + HALF_W,
                     !.vx = 0]
      ELSE IF e.vy > 0
        THEN [e EXCEPT !.py = y * Scale - HALF_H - HALF_BLOCK, !.vy = 0]
        ELSE [e EXCEPT !.py = y * Scale + HALF_BLOCK, !.vy = 0,
                       !.onGround = TRUE]

CollideCell(e, axis, x, y) ==
  IF ~Has(e.blocks, x, y, 0)
    THEN e
    ELSE IF axis = "x"
      THEN [e EXCEPT !.px = IF e.vx > 0 THEN x * Scale - HALF_W - HALF_BLOCK
                                         ELSE x * Scale + HALF_BLOCK + HALF_W,
                     !.vx = 0]
      ELSE IF e.vy > 0
        THEN [e EXCEPT !.py = y * Scale - HALF_H - HALF_BLOCK, !.vy = 0]
        ELSE [e EXCEPT !.py = y * Scale + HALF_BLOCK + HALF_H, !.vy = 0,
                       !.onGround = TRUE]

\* The two nested loops over the cells minX..maxX, minY..maxY; the ranges
\* are computed once, the player changes inside the loop.
RECURSIVE CollideLoop(_, _, _, _, _, _, _)
CollideLoop(e, axis, x, y, maxX, minY, maxY) ==
  IF x > maxX
    THEN e
    ELSE IF y > maxY
      THEN CollideLoop(e, axis, x + 1, minY, maxX, minY, maxY)
      ELSE CollideLoop(CollideCell(e, axis, x, y), axis, x, y + 1, maxX, minY, maxY)

checkCollision(e, axis) ==
  CollideLoop(e, axis, Floor(e.px - HALF_W), Floor(e.py - HALF_H),
              Floor(e.px + HALF_W), Floor(e.py - HALF_H), Floor(e.py + HALF_H))

\* ------------------------------------------------------------------------
\* Physics.  dt is the frame time in milliseconds.

\* Mutant of Accelerated: velocity.x is clamped to the sprint speed whether
\* or not sprint is held.
AcceleratedSprintClamp(e, dt) ==
  LET speed == (IF e.sprint THEN SPRINT_SPEED ELSE MOVE_SPEED) * Scale
      v1 == IF e.r # 0 THEN e.vx + MulDt(e.r * speed * 5, dt)
                       ELSE e.vx - MulDt(e.vx * DRAG, dt)
  IN  [e EXCEPT !.vx = Max(Min(v1, SPRINT_SPEED * Scale), -SPRINT_SPEED * Scale),
                !.vy = e.vy - GRAVITY * dt]

Accelerated(e, dt) ==
  LET speed == (IF e.sprint THEN SPRINT_SPEED ELSE MOVE_SPEED) * Scale
      v1 == IF e.r # 0 THEN e.vx + MulDt(e.r * speed * 5, dt)
                       ELSE e.vx - MulDt(e.vx * DRAG, dt)
  IN  [e EXCEPT !.vx = Max(Min(v1, speed), -speed),
                !.vy = e.vy - GRAVITY * dt]

MovedX(e, dt) == checkCollision([e EXCEPT !.px = e.px + MulDt(e.vx, dt)], "x")

MovedY(e, dt) == checkCollision([e EXCEPT !.py = e.py + MulDt(e.vy, dt)], "y")

Fallen(e) == e.py < DEATH_Y * Scale

\* updatePhysics; on fall-death it clears the active flag (the callback and
\* controls.unlock() it then makes are in the action).
updatePhysics(e, dt) ==
  LET e1 == MovedY(MovedX(Accelerated(e, dt), dt), dt)
  IN  IF Fallen(e1) THEN [e1 EXCEPT !.active = FALSE] ELSE e1

\* Mutant of Delta: the cap is one second.
DeltaCappedAtSecond(elapsed) == Min(elapsed, 10 * MAX_DT)

\* delta = Math.min((time - lastTime) / 1000, 0.1), for an elapsed time in
\* milliseconds.
Delta(elapsed) == Min(elapsed, MAX_DT)

\* Mutant of ActiveFrame: the score grows by dt, not by ten times dt.
ActiveFrameScoreDt(e, dt) ==
  LET e1 == updatePhysics(e, dt)
      e2 == [e1 EXCEPT !.particles = tickParticles(e1.particles, dt)]
      e3 == updateChunks(e2)
  IN  [e3 EXCEPT !.time = e3.time + dt, !.score = e3.score + dt]

\* The body of animate for an active engine.
ActiveFrame(e, dt) ==
  LET e1 == updatePhysics(e, dt)
      e2 == [e1 EXCEPT !.particles = tickParticles(e1.particles, dt)]
      e3 == updateChunks(e2)
  IN  [e3 EXCEPT !.time = e3.time + dt, !.score = e3.score + dt * 10]

\* Mutant of animate: the frame body does not test the active flag.
animateAlways(e, elapsed) == ActiveFrame(e, Delta(elapsed))

animate(e, elapsed) == IF e.active THEN ActiveFrame(e, Delta(elapsed)) ELSE e

\* ------------------------------------------------------------------------
\* Input handlers.

\* Mutant of handleJump: the double jump does not use up canDoubleJump.
handleJumpUnlimited(e) ==
  IF ~e.active
    THEN e
    ELSE IF e.onGround
      THEN [e EXCEPT !.vy = JUMP_FORCE * Scale, !.onGround = FALSE,
                     !.canDoubleJump = TRUE]
      ELSE IF e.canDoubleJump
        THEN [e EXCEPT !.vy = (JUMP_FORCE * Scale * 8) \div 10,
                       !.particles = spawnParticles(e.particles, e.px, e.py,
                                                    JUMP_PARTICLES)]
        ELSE e

handleJump(e) ==
  IF ~e.active
    THEN e
    ELSE IF e.onGround
      THEN [e EXCEPT !.vy = JUMP_FORCE * Scale, !.onGround = FALSE,
                     !.canDoubleJump = TRUE]
      ELSE IF e.canDoubleJump
        THEN [e EXCEPT !.vy = (JUMP_FORCE * Scale * 8) \div 10,
                       !.canDoubleJump = FALSE,
                       !.particles = spawnParticles(e.particles, e.px, e.py,
                                                    JUMP_PARTICLES)]
        ELSE e

onKey(e, code, v) ==
  CASE code = "KeyA" -> [e EXCEPT !.r = IF v THEN -1 ELSE 0]
    [] code = "KeyD" -> [e EXCEPT !.r = IF v THEN 1 ELSE 0]
    [] code = "ShiftLeft" -> [e EXCEPT !.sprint = v]
    [] code = "Space" -> IF v THEN handleJump(e) ELSE e
    [] OTHER -> e

\* The mousemove listener; limit is half the window's size.
onMouseMove(e, dx, dy, limit) ==
  IF ~e.active
    THEN e
    ELSE [e EXCEPT !.mouseX = Max(-limit, Min(limit, e.mouseX + dx)),
                   !.mouseY = Max(-limit, Min(limit, e.mouseY + dy))]

\* The ray test belongs to the rendering library; its answer is an input:
\* NoHit, or the nearest block hit and its distance.
NoHit == [key |-> "", distance |-> 0]

\* Mutant of Hits: a hit at exactly the maximum distance counts.
HitsInclusive(hit) == hit # NoHit /\ hit.distance <= MAX_REACH * Scale

Hits(hit) == hit # NoHit /\ hit.distance < MAX_REACH * Scale

destroyBlock(e, hit) ==
  IF ~e.active \/ ~Hits(hit)
    THEN e
    ELSE [e EXCEPT !.particles = spawnParticles(e.particles,
                                                e.blocks[hit.key].x * Scale,
                                                e.blocks[hit.key].y * Scale,
                                                DESTROY_PARTICLES),
                   !.blocks = deleteBlock(e.blocks, e.blocks[hit.key].key),
                   !.score = e.score + BLOCK_SCORE * Scale,
                   !.destroyed = @ \cup {e.blocks[hit.key].key}]

lock(e) == [e EXCEPT !.active = TRUE]

onUnlockEvent(e) == [e EXCEPT !.active = FALSE]

\* ------------------------------------------------------------------------
\* The host (App): its game state and its three callbacks.
handleDeath(gs) == "GAME_OVER"

\* Mutant of handleUnlock: the handler does not look at the game state.
handleUnlockAlwaysMenu(gs) == "MENU"

handleUnlock(gs) == IF gs = "PLAYING" THEN "MENU" ELSE gs

\* ------------------------------------------------------------------------
\* State.
VARIABLES
  eng,          \* the engine's fields
  locked,       \* the document holds the pointer lock
  exitPending,  \* fall-death has asked for the lock to be released
  disposed,     \* dispose() has returned
  gameState,    \* the host's GameState
  cb,           \* history: the number of calls of each host callback
  frames,       \* history: the number of active frame steps so far
  hist,         \* history: the last operation and what it did
  hostStats,    \* the host's stats state, as displayed
  lockTimer,    \* startGame's 50 ms timer is pending
  successor,    \* the engine constructed by a restart, once there is one
  sinceLast     \* performance.now() - lastTime, in milliseconds

vars == <<eng, locked, exitPending, disposed, gameState, cb, frames, hist,
          hostStats, lockTimer, successor, sinceLast>>

\* App's initial stats, and the value startGame resets them to.
ZeroStats == [score |-> 0, time |-> 0]

\* handleStatsUpdate: the host copies the stats object it is handed.
handleStatsUpdate(e) == [score |-> e.score, time |-> e.time]

\* No successor has been constructed.
NoEngine == [active |-> FALSE]

NoCalls == [death |-> 0, unlock |-> 0, stats |-> 0,
            unlockAfterDeath |-> 0, afterDispose |-> 0]

\* Inputs.
Elapsed == {40, 250}
Codes == {"KeyA", "KeyD", "ShiftLeft", "Space"}
MouseMoves == {<<2, 2>>, <<-1, -1>>}
Distances == {19900, 20000, 20100}
RayAnswers(blocks, aim) ==
  {NoHit} \cup {[key |-> k, distance |-> d] : k \in aim \cap DOMAIN blocks,
                                               d \in Distances}

InitWith(e) ==
  /\ eng = e
  /\ locked = FALSE
  /\ exitPending = FALSE
  /\ disposed = FALSE
  /\ gameState = "MENU"
  /\ cb = NoCalls
  /\ frames = 0
  /\ hist = [op |-> "init", kind |-> ""]
  /\ hostStats = ZeroStats
  /\ lockTimer = FALSE
  /\ successor = NoEngine
  /\ sinceLast = 0

\* new VoxelEngine(container, callbacks), mounted by GameCanvas under the
\* host's initial state.
Init == \E seed \in Seeds : InitWith(Construct(seed))

\* ------------------------------------------------------------------------
\* Actions.

\* One animation frame, after the clock has advanced by `elapsed` more
\* milliseconds; delta is taken from the time since lastTime was written
\* (by the last frame or by lock()), and the frame writes lastTime.  Frames
\* stop when dispose() cancels the pending request.
Frame(elapsed, limit) ==
  /\ ~disposed
  /\ eng.active => frames < limit
  /\ LET e1 == animate(eng, sinceLast + elapsed)
         died == eng.active /\ ~e1.active
     IN  /\ eng' = e1
         /\ frames' = IF eng.active THEN frames + 1 ELSE frames
         /\ cb' = [cb EXCEPT !.stats = IF eng.active THEN @ + 1 ELSE @,
                             !.death = IF died THEN @ + 1 ELSE @]
         /\ gameState' = IF died THEN handleDeath(gameState) ELSE gameState
         /\ exitPending' = (exitPending \/ (died /\ locked))
         /\ hist' = [op |-> "frame",
                     kind |-> IF died THEN "death"
                              ELSE IF eng.active THEN "active" ELSE "idle"]
         /\ hostStats' = IF eng.active THEN handleStatsUpdate(e1) ELSE hostStats
  /\ sinceLast' = 0
  /\ UNCHANGED <<locked, disposed, lockTimer, successor>>

\* keydown (v = TRUE) or keyup of one key; the listeners are never removed.
KeyEvent(code, v) ==
  /\ eng' = onKey(eng, code, v)
  /\ hist' = [op |-> IF v THEN "keydown" ELSE "keyup", kind |-> code]
  /\ UNCHANGED <<locked, exitPending, disposed, gameState, cb, frames,
                 hostStats, lockTimer, successor, sinceLast>>

MouseMove(dx, dy) ==
  /\ eng' = onMouseMove(eng, dx, dy, MaxMouse)
  /\ hist' = [op |-> "mousemove", kind |-> ""]
  /\ UNCHANGED <<locked, exitPending, disposed, gameState, cb, frames,
                 hostStats, lockTimer, successor, sinceLast>>

\* mousedown, with the ray test's answer (kept in the history).
Destroy(hit) ==
  /\ eng' = destroyBlock(eng, hit)
  /\ cb' = [cb EXCEPT !.stats = IF eng.active /\ Hits(hit) THEN @ + 1 ELSE @,
                      !.afterDispose = IF disposed /\ eng.active /\ Hits(hit)
                                         THEN @ + 1 ELSE @]
  /\ hist' = [op |-> "mousedown",
              kind |-> IF ~eng.active THEN "inactive"
                       ELSE IF hit = NoHit THEN "miss"
                       ELSE IF Hits(hit) THEN "hit" ELSE "far",
              ray |-> hit]
  /\ hostStats' = IF eng.active /\ Hits(hit)
                    THEN handleStatsUpdate(destroyBlock(eng, hit))
                    ELSE hostStats
  /\ UNCHANGED <<locked, exitPending, disposed, gameState, frames,
                 lockTimer, successor, sinceLast>>

\* lock(), reached through GameCanvas's handle while the engine is the
\* current one; the browser grants the pointer lock or not.
Lock(granted) ==
  /\ ~disposed
  /\ eng' = lock(eng)
  /\ locked' = (locked \/ granted)
  /\ hist' = [op |-> "lock", kind |-> ""]
  /\ lockTimer' = FALSE
  /\ sinceLast' = 0
  /\ UNCHANGED <<exitPending, disposed, gameState, cb, frames, hostStats,
                 successor>>

\* The pointer lock is lost (Escape, or the release fall-death asked for):
\* PointerLockControls dispatches 'unlock' to the listener init() added.
UnlockEvent ==
  /\ locked
  /\ cb.unlock < MaxUnlocks
  /\ eng' = onUnlockEvent(eng)
  /\ locked' = FALSE
  /\ exitPending' = FALSE
  /\ gameState' = handleUnlock(gameState)
  /\ cb' = [cb EXCEPT !.unlock = @ + 1,
                      !.unlockAfterDeath = IF cb.death > 0 THEN @ + 1 ELSE @,
                      !.afterDispose = IF disposed THEN @ + 1 ELSE @]
  /\ hist' = [op |-> "unlock", kind |-> IF exitPending THEN "death" ELSE "user"]
  /\ successor' = IF disposed THEN onUnlockEvent(successor) ELSE successor
  /\ UNCHANGED <<disposed, frames, hostStats, lockTimer, sinceLast>>

\* The host's start button (shown while the game is not PLAYING).  After a
\* GAME_OVER the game id changes, GameCanvas's effect cleanup disposes this
\* engine and a successor is constructed.
StartGame ==
  /\ gameState # "PLAYING"
  /\ disposed' = (disposed \/ gameState = "GAME_OVER")
  /\ gameState' = "PLAYING"
  /\ hist' = [op |-> "start", kind |-> IF gameState = "GAME_OVER" THEN "restart" ELSE ""]
  /\ hostStats' = IF gameState = "GAME_OVER" THEN ZeroStats ELSE hostStats
  /\ lockTimer' = TRUE
  /\ IF gameState = "GAME_OVER"
       THEN \E seed \in Seeds : successor' = Construct(seed)
       ELSE successor' = successor
  /\ UNCHANGED <<eng, locked, exitPending, cb, frames, sinceLast>>

\* Mutant of SuccessorLock: the restart's lock() reaches the disposed engine.
SuccessorLockDisposed ==
  /\ disposed
  /\ ~locked
  /\ locked' = TRUE
  /\ hist' = [op |-> "successor lock", kind |-> ""]
  /\ eng' = lock(eng)
  /\ lockTimer' = FALSE
  /\ UNCHANGED <<successor, exitPending, disposed, gameState, cb, frames,
                 hostStats, sinceLast>>

\* The successor engine's lock(): the same document takes the pointer lock.
SuccessorLock ==
  /\ disposed
  /\ ~locked
  /\ locked' = TRUE
  /\ hist' = [op |-> "successor lock", kind |-> ""]
  /\ successor' = lock(successor)
  /\ lockTimer' = FALSE
  /\ UNCHANGED <<eng, exitPending, disposed, gameState, cb, frames, hostStats,
                 sinceLast>>

\* ------------------------------------------------------------------------
\* Play from a new engine: frames of either length, the session's operations
\* and the jump key.
Next ==
  \/ \E el \in Elapsed : Frame(el, MaxFrames)
  \/ \E v \in BOOLEAN : KeyEvent("Space", v)
  \/ \E granted \in BOOLEAN : Lock(granted)
  \/ UnlockEvent
  \/ StartGame

Spec == Init /\ [][Next]_vars

\* ------------------------------------------------------------------------
\* Fall-death.  The generated terrain is at least three blocks deep, so the
\* player falls out of the world only through a shaft dug by the destroy
\* action.  The session starts where the host has started the game, lock()
\* has run and mousedown has removed every block of the two columns under
\* the start position before the first frame.
RECURSIVE Column(_, _, _)
Column(x, y, bottom) ==
  IF y < bottom THEN << >> ELSE <<Key(x, y, 0)>> \o Column(x, y - 1, bottom)

ShaftKeys == Column(0, Height(0), FLOOR_Y) \o Column(-1, Height(-1), FLOOR_Y)

RECURSIVE DestroyAll(_, _)
DestroyAll(e, keys) ==
  IF keys = << >>
    THEN e
    ELSE DestroyAll(destroyBlock(e, [key |-> Head(keys), distance |-> 15000]),
                    Tail(keys))

InitFall ==
  \E seed \in Seeds, granted \in BOOLEAN :
    /\ eng = DestroyAll(lock(Construct(seed)), ShaftKeys)
    /\ locked = granted
    /\ exitPending = FALSE
    /\ disposed = FALSE
    /\ gameState = "PLAYING"
    /\ cb = [NoCalls EXCEPT !.stats = Len(ShaftKeys)]
    /\ frames = 0
    /\ hist = [op |-> "mousedown", kind |-> "hit",
               ray |-> [key |-> ShaftKeys[Len(ShaftKeys)], distance |-> 15000]]
    /\ hostStats = handleStatsUpdate(eng)
    /\ lockTimer = FALSE
    /\ successor = NoEngine
    /\ sinceLast = 0

FallAim == {Key(1, 0, 0)}

NextFall ==
  \/ Frame(250, MaxFallFrames)
  \/ KeyEvent("Space", TRUE)
  \/ \E hit \in RayAnswers(eng.blocks, FallAim) : Destroy(hit)
  \/ \E granted \in BOOLEAN : Lock(granted)
  \/ UnlockEvent
  \/ StartGame
  \/ SuccessorLock

SpecFall == InitFall /\ [][NextFall]_vars

\* ------------------------------------------------------------------------
\* The player's position and velocity.
Kinematics(e) == <<e.px, e.py, e.vx, e.vy>>

\* C1: on one engine instance, whatever frames, inputs and lock() calls
\* follow, onDeath() is invoked at most once, it is invoked by exactly the
\* active frame steps that leave position.y < -10, and once it has been
\* invoked no step changes the player's position or velocity.
C1_DeathExactlyOnce ==
  [][ /\ cb'.death <= 1
      /\ (cb'.death = cb.death + 1)
           <=> (eng.active /\ frames' = frames + 1 /\ Fallen(eng') /\ ~eng'.active)
      /\ cb.death >= 1 => Kinematics(eng') = Kinematics(eng) ]_vars

\* C2: once onDeath() has been signaled, no onUnlock() is delivered to the
\* host.
C2_NoUnlockAfterDeath == cb.unlockAfterDeath = 0

\* C2 (amended): every loss of the pointer lock invokes onUnlock(), also
\* after onDeath() and for the release that fall-death itself requested; the
\* host's handler turns PLAYING into MENU and leaves every other game state,
\* GAME_OVER in particular, as it is.
C2_UnlockDeliveredHostFilters ==
  [][ /\ (locked /\ ~locked') => cb'.unlock = cb.unlock + 1
      /\ (cb'.unlock = cb.unlock + 1)
           => gameState' = (IF gameState = "PLAYING" THEN "MENU" ELSE gameState) ]_vars

\* C2 witness: the release requested by fall-death has been delivered as
\* onUnlock() after onDeath(), and the host still shows GAME_OVER.
C2_Witness ==
  /\ cb.death = 1
  /\ cb.unlockAfterDeath = 1
  /\ hist = [op |-> "unlock", kind |-> "death"]
  /\ gameState = "GAME_OVER"

\* The state of the engine that C3 names: player, grid, particles, stats,
\* mouse and the active flag.
Observed(e) ==
  <<Kinematics(e), e.onGround, e.canDoubleJump, e.blocks, e.chunksGenerated,
    e.particles, e.score, e.time, e.mouseX, e.mouseY, e.active>>

\* C3: after dispose() has returned, no step changes the disposed engine's
\* state and no host callback is invoked.
C3_DisposedIsInert ==
  [][ disposed => (Observed(eng') = Observed(eng) /\ cb' = cb) ]_vars

\* C4: score and time never decrease, whatever the step; a frame step that
\* runs while the engine is active adds its dt (0 <= dt <= 0.1 s) to time and
\* ten times dt to score and invokes onStatsUpdate exactly once, the frame
\* of fall-death included; a mousedown that destroys a block adds 10 to
\* score and leaves time alone.
C4_StatsMonotone ==
  [][ /\ eng'.score >= eng.score
      /\ eng'.time >= eng.time
      /\ (hist'.op = "frame" /\ eng.active)
           => /\ eng'.time - eng.time \in 0..MAX_DT
              /\ eng'.score - eng.score = 10 * (eng'.time - eng.time)
              /\ cb'.stats = cb.stats + 1
      /\ (hist'.op = "mousedown" /\ hist'.kind = "hit")
           => /\ eng'.score = eng.score + 10 * Scale
              /\ eng'.time = eng.time ]_vars

\* C4 witness: the frame of fall-death has run; onStatsUpdate has been
\* invoked by every active frame, that one included, by the mousedowns that
\* dug the shaft and by one more during the fall.
C4_Witness ==
  /\ hist = [op |-> "frame", kind |-> "death"]
  /\ cb.stats = frames + Len(ShaftKeys) + 1
  /\ eng.score = 10 * eng.time + (Len(ShaftKeys) + 1) * BLOCK_SCORE * Scale

\* The last n particles of the engine, newest last.
Newest(e, n) == SubSeq(e.particles, Len(e.particles) - n + 1, Len(e.particles))

\* C5: with the engine active, a Space keydown while onGround sets
\* velocity.y to JUMP_FORCE, clears onGround and sets canDoubleJump and
\* changes nothing else; one while airborne with canDoubleJump set sets
\* velocity.y to 0.8 * JUMP_FORCE, clears canDoubleJump and appends five
\* particles of full life at the player's position; one while airborne
\* without canDoubleJump changes nothing; and only a frame step, by a
\* Y-axis correction that zeroes velocity.y, sets onGround again.
C5_JumpStateMachine ==
  [][ /\ (hist'.op = "keydown" /\ hist'.kind = "Space" /\ eng.active)
           => IF eng.onGround
                THEN eng' = [eng EXCEPT !.vy = JUMP_FORCE * Scale,
                                        !.onGround = FALSE,
                                        !.canDoubleJump = TRUE]
              ELSE IF eng.canDoubleJump
                THEN /\ eng'.vy = (JUMP_FORCE * Scale * 4) \div 5
                     /\ ~eng'.canDoubleJump
                     /\ ~eng'.onGround
                     /\ Len(eng'.particles) = Len(eng.particles) + 5
                     /\ SubSeq(eng'.particles, 1, Len(eng.particles)) = eng.particles
                     /\ \A i \in 1..5 :
                          Newest(eng', 5)[i] = [life |-> Scale, x |-> eng.px, y |-> eng.py]
                     /\ [eng' EXCEPT !.vy = 0, !.particles = << >>]
                          = [eng EXCEPT !.vy = 0, !.particles = << >>,
                                        !.canDoubleJump = FALSE]
              ELSE eng' = eng
      /\ (~eng.onGround /\ eng'.onGround)
           => (hist'.op = "frame" /\ eng.active /\ eng'.vy = 0) ]_vars

\* C5 witness: the player has landed, jumped and double-jumped; the five
\* particles of the double jump are the newest, and a further Space keydown
\* finds the player airborne without canDoubleJump.
C5_Witness ==
  /\ hist = [op |-> "keydown", kind |-> "Space"]
  /\ eng.active
  /\ ~eng.onGround
  /\ ~eng.canDoubleJump
  /\ eng.vy = (JUMP_FORCE * Scale * 4) \div 5
  /\ Len(eng.particles) = 5

\* ------------------------------------------------------------------------
\* The grid's two operations on their own: createBlock and Map.delete applied
\* to the grid of a new engine, at coordinates inside the terrain, above it
\* and left of the origin, with two of the block types.
GridCells == {<<1, 10>>, <<11, 0>>, <<-1, -4>>, <<0, -1>>, <<-11, 0>>}

GridTypes == {"grass", "stone"}

Put(c, type) ==
  /\ eng' = [eng EXCEPT !.blocks = createBlock(@, c[1], c[2], 0, type)]
  /\ hist' = [op |-> "put", kind |-> Key(c[1], c[2], 0)]
  /\ UNCHANGED <<locked, exitPending, disposed, gameState, cb, frames,
                 hostStats, lockTimer, successor, sinceLast>>

Remove(c) ==
  /\ eng' = [eng EXCEPT !.blocks = deleteBlock(@, Key(c[1], c[2], 0))]
  /\ hist' = [op |-> "remove", kind |-> Key(c[1], c[2], 0)]
  /\ UNCHANGED <<locked, exitPending, disposed, gameState, cb, frames,
                 hostStats, lockTimer, successor, sinceLast>>

NextGrid ==
  \/ \E c \in GridCells, type \in GridTypes : Put(c, type)
  \/ \E c \in GridCells : Remove(c)

SpecGrid == Init /\ [][NextGrid]_vars

\* The grid without the entry of one key.
Without(blocks, key) == [k \in DOMAIN blocks \ {key} |-> blocks[k]]

\* C6: in every state each block is stored under the key of its own
\* coordinate, so no coordinate holds two blocks; after put at a coordinate
\* has is true there and the block stored is at that coordinate; put at an
\* occupied coordinate leaves the whole grid, the stored block's type
\* included, unchanged; put at a free one adds one block of the given type
\* and changes no other; after remove has is false there and no other block
\* has changed; remove at a free coordinate leaves the grid unchanged.
C6_GridOperations ==
  /\ [](\A k \in DOMAIN eng.blocks :
          /\ eng.blocks[k].key = k
          /\ k = Key(eng.blocks[k].x, eng.blocks[k].y, eng.blocks[k].z))
  /\ [][ \A c \in GridCells :
           LET k == Key(c[1], c[2], 0)
               before == Has(eng.blocks, c[1], c[2], 0)
           IN  /\ hist' = [op |-> "put", kind |-> k]
                    => /\ Has(eng'.blocks, c[1], c[2], 0)
                       /\ <<eng'.blocks[k].x, eng'.blocks[k].y, eng'.blocks[k].z>>
                            = <<c[1], c[2], 0>>
                       /\ before => eng'.blocks = eng.blocks
                       /\ ~before => /\ eng'.blocks[k].type \in GridTypes
                                      /\ Without(eng'.blocks, k) = eng.blocks
               /\ hist' = [op |-> "remove", kind |-> k]
                    => /\ ~Has(eng'.blocks, c[1], c[2], 0)
                       /\ eng'.blocks = Without(eng.blocks, k)
                       /\ ~before => eng'.blocks = eng.blocks ]_vars

\* C6 witness: a stone block has been put where the terrain has none, and a
\* later put of grass at the same coordinate has left it stone, while a
\* generated block has been removed.
C6_Witness ==
  /\ hist = [op |-> "put", kind |-> Key(1, 10, 0)]
  /\ Has(eng.blocks, 1, 10, 0)
  /\ eng.blocks[Key(1, 10, 0)].type = "stone"
  /\ ~Has(eng.blocks, 11, 0, 0)
  /\ ~Has(eng.blocks, -1, -4, 0)

\* ------------------------------------------------------------------------
\* Running left out of the start chunk: frames, the A and Shift keys and
\* mousedown on the block under the start position.
RunCodes == {"KeyA", "ShiftLeft"}

RunAim == {Key(0, Height(0), 0)}

NextRun ==
  \/ Frame(250, MaxRunFrames)
  \/ Lock(TRUE)
  \/ \E code \in RunCodes, v \in BOOLEAN : KeyEvent(code, v)
  \/ \E hit \in RayAnswers(eng.blocks, RunAim) : Destroy(hit)

SpecRun == Init /\ [][NextRun]_vars

\* The chunk indices generateChunk has been called with.
Generated(e) == {e.genLog[i] : i \in 1..Len(e.genLog)}

\* C7: in every state a further call of updateChunks changes nothing (no
\* block, no ledger entry, no call of generateChunk), also where blocks of
\* a generated chunk have been destroyed; generateChunk has been called at
\* most once with each chunk index and exactly with the indices in the
\* ledger; and no step removes an index from the ledger or a call from the
\* history of generations.
C7_EnsureWindowIdempotent ==
  /\ [](updateChunks(eng) = eng)
  /\ [](\A i, j \in 1..Len(eng.genLog) : eng.genLog[i] = eng.genLog[j] => i = j)
  /\ [](Generated(eng) = eng.chunksGenerated)
  /\ [][ /\ eng.chunksGenerated \subseteq eng'.chunksGenerated
         /\ Len(eng.genLog) <= Len(eng'.genLog)
         /\ SubSeq(eng'.genLog, 1, Len(eng.genLog)) = eng.genLog ]_vars

\* C7 witness: the player has run into the chunk left of the start chunk,
\* a frame's updateChunks has generated the one chunk the new window lacked,
\* and the block destroyed in the start chunk has not come back.
C7_Witness ==
  /\ hist.op = "frame"
  /\ PlayerChunk(eng.px) = -1
  /\ eng.genLog = <<-1, 0, 1, 2, 3, 4, -2>>
  /\ ~Has(eng.blocks, 0, Height(0), 0)

\* ------------------------------------------------------------------------
\* Landing on a flat floor.  The engine is constructed and locked, and its
\* terrain is replaced by a single layer of blocks at y = 0 that reaches
\* from the cell left of the start position as far right as the player can
\* get in the frames explored; the ledger keeps the start window, so
\* updateChunks adds nothing.  There is no input; each frame has either
\* length.
RECURSIVE FloorRow(_, _, _)
FloorRow(blocks, x, right) ==
  IF x > right \/ DOMAIN blocks = {"-"}
    THEN blocks
    ELSE FloorRow(createBlock(blocks, x, 0, 0, "grass"), x + 1, right)

FloorGrid == FloorRow(EmptyGrid, -1, MaxLandFrames + 2)

InitLanding ==
  \E seed \in Seeds :
    /\ eng = [lock(Construct(seed)) EXCEPT !.blocks = FloorGrid]
    /\ locked = TRUE
    /\ exitPending = FALSE
    /\ disposed = FALSE
    /\ gameState = "PLAYING"
    /\ cb = NoCalls
    /\ frames = 0
    /\ hist = [op |-> "lock", kind |-> ""]
    /\ hostStats = ZeroStats
    /\ lockTimer = FALSE
    /\ successor = NoEngine
    /\ sinceLast = 0

NextLanding == \E el \in Elapsed : Frame(el, MaxLandFrames)

SpecLanding == InitLanding /\ [][NextLanding]_vars

\* The player stands on the floor: the block's top face plus half the
\* player's height.
Landed == eng.py = HALF_BLOCK + HALF_H /\ eng.vy = 0 /\ eng.onGround

\* Every frame so far has had the length dt.
SameDt(dt) == eng.time = frames * dt

\* C8: on the flat floor, from y = 5 and without input, after the frames
\* explored the player's y is 0.5 and onGround is true.
C8_SettlesAtHalf ==
  frames = MaxLandFrames => (eng.py = HALF_BLOCK /\ eng.onGround)

\* C8 (amended): when every frame has had the same length, after the
\* frames explored the player's y is 0.9, velocity.y is zero and onGround is
\* true; and whatever the frame lengths, once the player stands at 0.9 every
\* later step leaves it there.
C8_SettlesOnTopOfFloor ==
  /\ [](frames = MaxLandFrames /\ (SameDt(Delta(40)) \/ SameDt(Delta(250)))
          => Landed)
  /\ [][Landed => Landed']_vars

\* C8 witness: frames of 0.04 s only, as many as are explored; the player
\* has come down from y = 5 and stands on the floor.
C8_Witness ==
  /\ frames = MaxLandFrames
  /\ SameDt(Delta(40))
  /\ hist = [op |-> "frame", kind |-> "active"]
  /\ Landed

\* ------------------------------------------------------------------------
\* Digging: frames of either length, lock() and mousedown with the ray's
\* answer among three blocks around the start position, before lock() too.
DigAim == {Key(0, Height(0), 0), Key(0, Height(0) - 1, 0), Key(1, Height(1), 0)}

NextDig ==
  \/ \E el \in Elapsed : Frame(el, MaxDigFrames)
  \/ Lock(TRUE)
  \/ \E hit \in RayAnswers(eng.blocks, DigAim) : Destroy(hit)

SpecDig == Init /\ [][NextDig]_vars

\* C9: a mousedown on an active engine whose ray reports a nearest hit
\* closer than 20 removes exactly the block hit, adds exactly 10 to score
\* and appends exactly eight particles of full life at the block's
\* position, and changes nothing else; with no hit, or a nearest hit at 20
\* or farther, the engine's state is unchanged and no callback is invoked.
C9_DestroyWithinReach ==
  [][ (hist'.op = "mousedown" /\ eng.active)
        => LET ray == hist'.ray
           IN  IF ray # NoHit /\ ray.distance < 20 * Scale
                 THEN /\ ray.key \in DOMAIN eng.blocks
                      /\ eng'.blocks = Without(eng.blocks, ray.key)
                      /\ eng'.score = eng.score + 10 * Scale
                      /\ Len(eng'.particles) = Len(eng.particles) + 8
                      /\ SubSeq(eng'.particles, 1, Len(eng.particles)) = eng.particles
                      /\ \A i \in 1..8 :
                           Newest(eng', 8)[i] = [life |-> Scale,
                                                 x |-> eng.blocks[ray.key].x * Scale,
                                                 y |-> eng.blocks[ray.key].y * Scale]
                      /\ [eng' EXCEPT !.blocks = EmptyGrid, !.score = 0,
                                       !.particles = << >>, !.destroyed = {}]
                           = [eng EXCEPT !.blocks = EmptyGrid, !.score = 0,
                                         !.particles = << >>, !.destroyed = {}]
                 ELSE eng' = eng /\ cb' = cb ]_vars

\* C9 witness: on an active engine a hit at 19.9 has just removed the block
\* under the player, and an earlier hit removed the block beside it: two
\* blocks gone, 20 scored beside the time score, sixteen particles.
C9_Witness ==
  /\ hist.op = "mousedown"
  /\ hist.ray = [key |-> Key(0, Height(0), 0), distance |-> 19900]
  /\ eng.active
  /\ ~Has(eng.blocks, 0, Height(0), 0)
  /\ ~Has(eng.blocks, 1, Height(1), 0)
  /\ Has(eng.blocks, 0, Height(0) - 1, 0)
  /\ eng.score = 10 * eng.time + 2 * BLOCK_SCORE * Scale
  /\ Len(eng.particles) = 2 * DESTROY_PARTICLES

\* ------------------------------------------------------------------------
\* The particle system on its own: spawnParticles with the two counts the
\* engine uses, and the particle loop of animate applied with a tick length
\* that is zero, one of the two frame lengths, or 0.6 s (a length the loop
\* never gets from animate, whose delta is at most 0.1 s).  The history
\* keeps the tick's length, the number of full-life particles it found and
\* the number it removed.
TickDts == {0, Delta(40), Delta(250), 600}

SpawnCounts == {JUMP_PARTICLES, DESTROY_PARTICLES}

FullLife(particles) == {i \in 1..Len(particles) : particles[i].life = PARTICLE_LIFE}

Spawn(count) ==
  /\ Len(eng.particles) + count <= MaxParticles
  /\ eng' = [eng EXCEPT !.particles = spawnParticles(@, eng.px, eng.py, count)]
  /\ hist' = [op |-> "spawn", kind |-> ""]
  /\ UNCHANGED <<locked, exitPending, disposed, gameState, cb, frames,
                 hostStats, lockTimer, successor, sinceLast>>

Tick(dt) ==
  /\ eng' = [eng EXCEPT !.particles = tickParticles(@, dt)]
  /\ hist' = [op |-> "tick", kind |-> "", dt |-> dt,
              fresh |-> Cardinality(FullLife(eng.particles)),
              removed |-> Len(eng.particles) - Len(eng'.particles)]
  /\ UNCHANGED <<locked, exitPending, disposed, gameState, cb, frames,
                 hostStats, lockTimer, successor, sinceLast>>

NextParticles ==
  \/ \E count \in SpawnCounts : Spawn(count)
  \/ \E dt \in TickDts : Tick(dt)

SpecParticles == Init /\ [][NextParticles]_vars

\* The lives of the particles, oldest first.
Lives(particles) == [i \in 1..Len(particles) |-> particles[i].life]

\* The lives left after a tick of dt: each lowered by twice dt, the ones
\* then <= 0 dropped.
LivesAfter(lives, dt) ==
  LET lowered == [i \in 1..Len(lives) |-> lives[i] - 2 * dt]
      Positive(l) == l > 0
  IN  SelectSeq(lowered, Positive)

\* C10: a full-life particle ticked with dt = 0.6 is live after that tick
\* (so that the second such tick is the one that removes it).
C10_LiveAfterFirstTick ==
  [][ (hist'.op = "tick" /\ hist'.dt = 600)
        => Len(eng'.particles) >= Cardinality(FullLife(eng.particles)) ]_vars

\* C10 (amended): every particle is spawned with life 1.0; a tick of dt
\* lowers every particle's life by 2*dt and removes exactly the ones whose
\* life is then <= 0, keeping the others in order, so no live particle ever
\* has life <= 0 (or more than 1.0) and a tick with dt > 0 brings every
\* survivor strictly nearer to removal; a tick with dt = 0.6 removes every
\* particle, one of life 1.0 included, which therefore sees no second tick.
C10_ParticleLifecycle ==
  /\ [](\A i \in 1..Len(eng.particles) :
          eng.particles[i].life > 0 /\ eng.particles[i].life <= Scale)
  /\ [][ /\ hist'.op = "spawn"
              => /\ SubSeq(eng'.particles, 1, Len(eng.particles)) = eng.particles
                 /\ Len(eng'.particles) - Len(eng.particles) \in {5, 8}
                 /\ \A i \in Len(eng.particles) + 1 .. Len(eng'.particles) :
                      eng'.particles[i].life = Scale
         /\ hist'.op = "tick"
              => /\ Lives(eng'.particles) = LivesAfter(Lives(eng.particles), hist'.dt)
                 /\ hist'.dt > 0
                      => \A i \in 1..Len(eng'.particles) :
                           \E j \in 1..Len(eng.particles) :
                             eng'.particles[i].life < eng.particles[j].life
                 /\ hist'.dt = 600 => eng'.particles = << >> ]_vars

\* C10 witness: a tick with dt = 0.6 found five particles, all of full
\* life, and removed all five.
C10_Witness ==
  /\ hist.op = "tick"
  /\ hist.dt = 600
  /\ hist.fresh = JUMP_PARTICLES
  /\ hist.removed = JUMP_PARTICLES
  /\ eng.particles = << >>

\* ------------------------------------------------------------------------
\* Restart.  The session of the dug shaft, with lock() called only the way
\* the host calls it: by the timer startGame sets, on the engine that
\* GameCanvas holds when the timer fires.
NextRestart ==
  \/ Frame(250, MaxFallFrames)
  \/ KeyEvent("Space", TRUE)
  \/ \E hit \in RayAnswers(eng.blocks, FallAim) : Destroy(hit)
  \/ \E granted \in BOOLEAN : lockTimer /\ Lock(granted)
  \/ lockTimer /\ SuccessorLock
  \/ UnlockEvent
  \/ StartGame

SpecRestart == InitFall /\ [][NextRestart]_vars

\* The x coordinates of the initial window's generation: the chunks -1 to
\* VIEW_DISTANCE around the start position, and the one column a stone
\* platform can reach beyond the last of them.
WindowColumns == (-CHUNK_SIZE) .. ((VIEW_DISTANCE + 1) * CHUNK_SIZE)

\* C11: a start after GAME_OVER disposes the engine and constructs a
\* successor that is inactive, has score 0 and time 0, no particles, the
\* player at (0, 5) with zero velocity, onGround and canDoubleJump false,
\* and a grid and ledger holding one generation of the chunks -1..4 and
\* nothing else; the host's stats are reset to zero and nothing the disposed
\* engine does changes them afterwards; the disposed engine is never active,
\* and the lock() of the restart's timer activates the successor and leaves
\* the disposed engine as it is.
C11_RestartIsFresh ==
  /\ [](disposed => (~eng.active /\ hostStats = ZeroStats))
  /\ [][ /\ (gameState = "GAME_OVER" /\ hist'.op = "start")
              => /\ disposed' /\ ~disposed
                 /\ ~successor'.active
                 /\ <<successor'.score, successor'.time>> = <<0, 0>>
                 /\ successor'.particles = << >>
                 /\ Kinematics(successor') = <<0, 5 * Scale, 0, 0>>
                 /\ ~successor'.onGround /\ ~successor'.canDoubleJump
                 /\ successor'.chunksGenerated = (-1)..4
                 /\ successor'.genLog = <<-1, 0, 1, 2, 3, 4>>
                 /\ \A k \in DOMAIN successor'.blocks :
                      successor'.blocks[k].x \in WindowColumns
                 /\ hostStats' = ZeroStats
                 /\ gameState' = "PLAYING"
                 /\ eng' = eng
         /\ (disposed /\ hist'.op = "successor lock")
              => (successor'.active /\ ~successor.active /\ eng' = eng)
         /\ (disposed /\ hist'.op = "lock") => eng' = eng ]_vars

\* C11 witness: the player scored and died, the host restarted, and the
\* timer's lock() has activated the successor; the disposed engine keeps
\* its score and stays inactive, the host shows zero.
C11_Witness ==
  /\ hist.op = "successor lock"
  /\ disposed
  /\ cb.death = 1
  /\ eng.score > 0
  /\ ~eng.active
  /\ successor.active
  /\ successor.score = 0
  /\ hostStats = ZeroStats

\* ------------------------------------------------------------------------
\* Idle engines: the session of the dug shaft together with the session of
\* a new engine that has not been locked yet, so that the engine is found
\* inactive before the first lock(), after an unlock and after fall-death.
InitIdle == Init \/ InitFall

NextIdle ==
  \/ Frame(250, MaxFallFrames)
  \/ KeyEvent("Space", TRUE)
  \/ \E hit \in RayAnswers(eng.blocks, FallAim) : Destroy(hit)
  \/ Lock(TRUE)
  \/ UnlockEvent

SpecIdle == InitIdle /\ [][NextIdle]_vars

\* What C12 names: player, grid, ledger, particles and look-delta.
Simulated(e) ==
  <<Kinematics(e), e.onGround, e.canDoubleJump, e.blocks, e.chunksGenerated,
    e.particles, e.mouseX, e.mouseY>>

\* C12: while the engine is inactive, a frame step, a Space keydown and a
\* mousedown (whatever the ray reports) each leave the player's position
\* and velocity, onGround, canDoubleJump, the grid, the chunk ledger, the
\* particles and the look-delta unchanged.
C12_InactiveIsInert ==
  [][ (~eng.active /\ ( \/ hist'.op = "frame"
                        \/ hist' = [op |-> "keydown", kind |-> "Space"]
                        \/ hist'.op = "mousedown" ))
        => Simulated(eng') = Simulated(eng) ]_vars

\* C12 witness: after fall-death a mousedown whose ray reports a block
\* within reach has found the engine inactive; the block is still there.
C12_Witness ==
  /\ hist.op = "mousedown"
  /\ hist.kind = "inactive"
  /\ hist.ray = [key |-> Key(1, 0, 0), distance |-> 19900]
  /\ cb.death = 1
  /\ ~eng.active
  /\ Has(eng.blocks, 1, 0, 0)

\* C13: a step that ends with the engine inactive (one that finds it
\* inactive and is not a lock(), the unlock that clears the flag, or the
\* frame whose physics detects fall-death) changes neither score nor time
\* and does not invoke onStatsUpdate.
C13_StatsOnlyWhileActive ==
  [][ ~eng'.active
        => /\ eng'.score = eng.score
           /\ eng'.time = eng.time
           /\ cb'.stats = cb.stats ]_vars

\* The chunk indices a session can reach in the frames explored.
ChunkRange == (-VIEW_DISTANCE) .. VIEW_DISTANCE

\* C14: in every state, from construction on and after every frame, the
\* chunk c that holds the player's x (c * CHUNK_SIZE <= x < (c+1) *
\* CHUNK_SIZE, also for negative x) and its window c-1 .. c+VIEW_DISTANCE
\* are in the ledger; and no step takes an index out of the ledger.
C14_WindowGenerated ==
  /\ [](\A c \in ChunkRange :
          (c * CHUNK_SIZE * Scale <= eng.px /\ eng.px < (c + 1) * CHUNK_SIZE * Scale)
            => (c - 1) .. (c + VIEW_DISTANCE) \subseteq eng.chunksGenerated)
  /\ [](\E c \in ChunkRange :
          c * CHUNK_SIZE * Scale <= eng.px /\ eng.px < (c + 1) * CHUNK_SIZE * Scale)
  /\ [][eng.chunksGenerated \subseteq eng'.chunksGenerated]_vars

\* C14 witness: a frame has taken the player to negative x, into chunk -1,
\* and the window -2 .. 3 of that chunk is in the ledger beside chunk 4 of
\* the initial window.
C14_Witness ==
  /\ hist = [op |-> "frame", kind |-> "active"]
  /\ eng.px < 0
  /\ eng.px >= -CHUNK_SIZE * Scale
  /\ eng.chunksGenerated = (-2) .. 4

\* ------------------------------------------------------------------------
\* The clock.  Time passes between the engine's steps, by a part of a
\* frame or by a suspension of the tab, also while the engine is paused; a
\* frame then takes its delta from the time since lastTime was written.
Suspension == 10^6

Advances == {40, 60, Suspension}

\* performance.now() moves on; nothing of the engine runs.
Advance(d) ==
  /\ sinceLast <= MAX_DT
  /\ sinceLast' = sinceLast + d
  /\ hist' = [op |-> "advance", kind |-> ""]
  /\ UNCHANGED <<eng, locked, exitPending, disposed, gameState, cb, frames,
                 hostStats, lockTimer, successor>>

NextClock ==
  \/ \E d \in Advances : Advance(d)
  \/ Frame(0, MaxClockFrames)
  \/ Lock(TRUE)
  \/ UnlockEvent

SpecClock == Init /\ [][NextClock]_vars

\* C15: every frame step of an active engine uses for dt the time since
\* the last frame step or lock(), whichever came later, cut off at 0.1 s:
\* dt is never negative and never more than 0.1 s, however long the clock
\* ran before the step, so the step adds at most 0.1 to time and at most 1
\* to score; every frame step, active or not, and every lock() restart the
\* measurement.
C15_DeltaCapped ==
  /\ [](sinceLast >= 0)
  /\ [][ /\ (hist'.op = "frame" /\ eng.active)
              => /\ eng'.time - eng.time
                      = (IF sinceLast < 100 THEN sinceLast ELSE 100)
                 /\ eng'.time - eng.time \in 0..100
                 /\ eng'.score - eng.score \in 0..Scale
         /\ (hist'.op = "frame" \/ hist'.op = "lock") => sinceLast' = 0 ]_vars

\* C15 witness: there has been a pause (an unlock and a later lock()),
\* and three active frames have added 0.14 s between them: one of them came
\* 0.1 s or more after lastTime was written and was cut off at 0.1 s.
C15_Witness ==
  /\ hist = [op |-> "frame", kind |-> "active"]
  /\ cb.unlock = 1
  /\ frames = 3
  /\ eng.time = 40 + MAX_DT
  /\ sinceLast = 0

\* |v| for a velocity component.
Abs(v) == IF v < 0 THEN -v ELSE v

\* C16: after every frame step of an active engine |velocity.x| is at most
\* SPRINT_SPEED (20) if sprint is held during the step and at most
\* MOVE_SPEED (12) if it is not, also right after sprint is released at
\* full sprint speed; and in every state |velocity.x| is at most
\* SPRINT_SPEED.
C16_SpeedBound ==
  /\ [](Abs(eng.vx) <= 20 * Scale)
  /\ [][ (hist'.op = "frame" /\ eng.active)
            => Abs(eng'.vx) <= (IF eng.sprint THEN 20 ELSE 12) * Scale ]_vars

\* C16 witness: the player ran left at full sprint speed, sprint was
\* released, and the next frame has cut the speed down to MOVE_SPEED.
C16_Witness ==
  /\ hist = [op |-> "frame", kind |-> "active"]
  /\ ~eng.sprint
  /\ eng.r = -1
  /\ eng.vx = -MOVE_SPEED * Scale
  /\ eng.time = 4 * MAX_DT
  /\ eng.px < -(4 * MOVE_SPEED * MAX_DT)

\* ------------------------------------------------------------------------
\* Walking and jumping on the generated terrain, with frames 5 ms apart (a
\* fast display) and frames 250 ms apart (capped to 0.1 s).
MaxJumpFrames == 5

JumpElapsed == {5, 250}

JumpCodes == {"Space", "KeyD"}

NextJump ==
  \/ \E elapsed \in JumpElapsed : Frame(elapsed, MaxJumpFrames)
  \/ \E code \in JumpCodes : KeyEvent(code, TRUE)
  \/ Lock(TRUE)

SpecJump == Init /\ [][NextJump]_vars

\* ------------------------------------------------------------------------
\* The player as the Y-axis correction of a frame finds it: accelerated,
\* moved and corrected in x, moved in y.
BeforeYCorrection(e, dt) ==
  LET a == MovedX(Accelerated(e, dt), dt)
  IN  [a EXCEPT !.py = a.py + MulDt(a.vy, dt)]

\* The occupied cells among those the player overlaps.
Overlapped(e) ==
  {c \in (Floor(e.px - HALF_W) .. Floor(e.px + HALF_W))
          \X (Floor(e.py - HALF_H) .. Floor(e.py + HALF_H)) :
     Has(e.blocks, c[1], c[2], 0)}

\* C17: a Y-axis correction that begins with velocity.y > 0 and an occupied
\* overlapped cell leaves the player 0.9 below the centre of one of the
\* blocks overlapped (under its bottom face), velocity.y = 0 and onGround as
\* it was; and a frame sets onGround only in a correction that began with
\* velocity.y <= 0, which leaves the player 0.9 above the centre of one of
\* the blocks overlapped (on its top face).
C17_CorrectionByDirection ==
  [][ (hist'.op = "frame" /\ eng.active)
        => LET b == BeforeYCorrection(eng, eng'.time - eng.time)
           IN  /\ (b.vy > 0 /\ Overlapped(b) # {})
                    => /\ \E c \in Overlapped(b) :
                            eng'.py = c[2] * Scale - HALF_BLOCK - HALF_H
                       /\ eng'.vy = 0
                       /\ eng'.onGround = eng.onGround
               /\ (~eng.onGround /\ eng'.onGround)
                    => /\ b.vy <= 0
                       /\ \E c \in Overlapped(b) :
                            eng'.py = c[2] * Scale + HALF_BLOCK + HALF_H ]_vars

\* ------------------------------------------------------------------------
\* Math.floor(worldX / CHUNK_SIZE): the chunk whose columns include worldX.
ChunkOf(worldX) == worldX \div CHUNK_SIZE

\* C18: a step adds a block only if it is a frame that generates the chunk
\* the block's column belongs to (so never a key or mouse event, and never
\* into a chunk that was already marked generated), and no key deleted by
\* destroyBlock is in the grid again.
C18_BlockLifecycle ==
  /\ [][ \A k \in DOMAIN eng'.blocks \ DOMAIN eng.blocks :
           /\ hist'.op = "frame"
           /\ ChunkOf(eng'.blocks[k].x) \in
                 eng'.chunksGenerated \ eng.chunksGenerated ]_vars
  /\ [](eng.destroyed \cap DOMAIN eng.blocks = {})

\* ------------------------------------------------------------------------
\* The rows of the floor blocks the player rests on: a block stands under the
\* player's box (its column within half a block plus the player's half-width
\* of position.x) with its top face at the player's feet.
FloorsUnder(e) ==
  {y \in MIN_HEIGHT - 2 .. 8 :
     /\ e.py = y * Scale + HALF_BLOCK + HALF_H
     /\ \E x \in Floor(e.px - HALF_W) - 1 .. Floor(e.px + HALF_W) + 1 :
          /\ Has(e.blocks, x, y, 0)
          /\ Abs(x * Scale - e.px) < HALF_BLOCK + HALF_W}

\* No block in the two rows above the floor row y, in the columns the player
\* occupies or touches and one further on each side.
ClearAbove(e, y) ==
  \A x \in Floor(e.px - HALF_W) - 1 .. Floor(e.px + HALF_W) + 1,
     r \in y + 1 .. y + 2 : ~Has(e.blocks, x, r, 0)

\* C19: an active frame that starts with the player resting on top of a floor
\* block (onGround, velocity 0, no lateral intent) with nothing beside the
\* player above the floor leaves position.x unchanged and velocity.x = 0.
C19_NoDriftAtRest ==
  [][ ( /\ hist'.op = "frame" /\ eng.active
        /\ eng.onGround /\ eng.vx = 0 /\ eng.vy = 0 /\ eng.r = 0
        /\ \E y \in FloorsUnder(eng) : ClearAbove(eng, y) )
        => (eng'.px = eng.px /\ eng'.vx = 0) ]_vars

\* ------------------------------------------------------------------------
\* The blocks whose interior the player's box overlaps: blocks are unit cubes
\* centred on their integer coordinates (createBlock sets mesh.position to
\* (x, y, z)), the box has half-extents 0.35 and 0.4 around the position.
Penetrated(e) ==
  {k \in DOMAIN e.blocks :
     /\ Abs(e.blocks[k].x * Scale - e.px) < HALF_BLOCK + HALF_W
     /\ Abs(e.blocks[k].y * Scale - e.py) < HALF_BLOCK + HALF_H}

\* C20: after every active frame the player's box overlaps the interior of
\* no block.
C20_NoInterpenetration ==
  [][ (hist'.op = "frame" /\ eng.active) => Penetrated(eng') = {} ]_vars

\* ------------------------------------------------------------------------
\* A block lies beneath the player with its top face at the player's feet:
\* under the player's box, or in one of the columns checkCollision tests.
Supported(e) ==
  \/ FloorsUnder(e) # {}
  \/ \E x \in Floor(e.px - HALF_W) .. Floor(e.px + HALF_W),
         y \in MIN_HEIGHT - 2 .. 8 :
        /\ Has(e.blocks, x, y, 0)
        /\ e.py = y * Scale + HALF_BLOCK + HALF_H

\* C21: after every active frame onGround implies that a block supports the
\* player, and a Space keydown gives the full jump velocity only to a
\* supported player.
C21_OnGroundReflectsSupport ==
  /\ [][ (hist'.op = "frame" /\ eng.active)
           => (eng'.onGround => Supported(eng')) ]_vars
  /\ [][ ( /\ hist'.op = "keydown" /\ hist'.kind = "Space" /\ eng.active
            /\ eng'.vy = JUMP_FORCE * Scale /\ eng'.canDoubleJump
            /\ ~eng'.onGround /\ eng.onGround )
           => Supported(eng) ]_vars

=============================================================================
